---- MODULE Spec2Model ----
(***************************************************************************)
(* Package eh (escape hatch): Result, Eh, MustUnwrap, MustUnwrapErr,       *)
(* EscapeHatch, EscapeHatchErr, CatchError and Fallback, together with the *)
(* part of Go's defer / panic / recover semantics they are written         *)
(* against.                                                                *)
(*                                                                         *)
(* In Spec and SpecFire one goroutine runs one function.  The function     *)
(* registers deferred calls, works on its named Result, and leaves by a    *)
(* return or by a panic; the deferred calls then run last registered       *)
(* first.  In SpecGo several goroutines run side by side, and pc, res,     *)
(* pan, registered, defers, fired and ret hold one value per goroutine.    *)
(***************************************************************************)
EXTENDS Integers, Sequences, FiniteSets, TLC

VARIABLES
    pc,       \* "body" | "exiting" | "returned" | "panicked"
    res,      \* the function's named Result[int]: [Ok, Err]
    pan,      \* the panic value in flight (NilPanic when not panicking)
    registered, \* history: every deferred call, in registration order
    defers,   \* the deferred calls still to run, last registered last
    fired,    \* history: one record per deferred call that has run
    last,     \* history: res and pan as the last deferred call found them
    ret,      \* what the last Eh / MustUnwrap* call gave back to the body
    slots,    \* the Results a caller owns and hands out by pointer (res1, res2, ...)
    wg,       \* the counter of the caller's sync.WaitGroup
    stack     \* the frames of the calls in progress below the function (SpecLegacy)

vars == <<pc, res, pan, registered, defers, fired, last, ret, slots, wg, stack>>

----------------------------------------------------------------------------
(* Bounds of the model. *)

MaxVal == 1          \* payloads are 0..MaxVal
WrapDepth == 1       \* an error wraps at most WrapDepth times
MaxTargets == 2      \* longest `when` list of a single handler
MaxDefers == 3       \* deferred calls registered by one function
MaxQueries == 2      \* queries made on one Result value
MaxOperand == 5      \* doDivide is called with operands 0..MaxOperand
MaxStack == 20       \* frames a goroutine's stack has room for

(* The fallback value used throughout eh_test.go. *)
FallbackVal == 100

----------------------------------------------------------------------------
(* Errors.  An error value is the sequence of its Unwrap chain: <<"E1">>   *)
(* is the sentinel errors.New("E1"), <<"W","E1">> is fmt.Errorf("%w", E1). *)
(* The nil error is the empty sequence.                                    *)

Nil == <<>>

Sentinels == {"E1", "E2", "E3"}

SentinelErrs == {<<s>> : s \in Sentinels}

RECURSIVE ErrsOfDepth(_)
ErrsOfDepth(n) ==
    IF n = 0 THEN SentinelErrs
    ELSE LET prev == ErrsOfDepth(n - 1)
         IN  prev \cup {<<"W">> \o e : e \in prev}

Errs == ErrsOfDepth(WrapDepth)

ErrUnwrap(e) == IF Len(e) > 1 THEN Tail(e) ELSE Nil

RECURSIVE errorsIsLoop(_, _)
errorsIsLoop(err, target) ==
    IF err = target THEN TRUE
    ELSE LET u == ErrUnwrap(err)
         IN  IF u = Nil THEN FALSE ELSE errorsIsLoop(u, target)

(* Faulty variant: compares without following the Unwrap chain. *)
errorsIsIdentity(err, target) == err = target

(* errors.Is: target equals err or an error err wraps. *)
errorsIs(err, target) ==
    IF err = Nil \/ target = Nil THEN err = target
    ELSE errorsIsLoop(err, target)

----------------------------------------------------------------------------
(* Results. *)

Vals == 0 .. MaxVal

Zero == 0

Result(v, e) == [Ok |-> v, Err |-> e]

(* Faulty variant: an Err Result is built without its payload. *)
NewResultDropsVal(val, err) == IF err # Nil THEN Result(Zero, err) ELSE Result(val, err)

NewResult(val, err) == Result(val, err)

FromFailable(err) == Result(Zero, err)

IsOk(r) == r.Err = Nil

(* Faulty variant: a Result with a payload does not count as Err. *)
IsErrUnlessPayload(r) == r.Err # Nil /\ r.Ok = Zero

IsErr(r) == r.Err # Nil

(* The method r.Unwrap(). *)
Unwrap(r) == <<r.Ok, r.Err>>

(* The function Unwrap(r). *)
UnwrapFunc(r) == <<r.Ok, r.Err>>

----------------------------------------------------------------------------
(* Panic values.  recover() returns NilPanic when nothing is unwinding.    *)

NilPanic == [type |-> "nil", err |-> Nil]

ehError(e) == [type |-> "ehError", err |-> e]

ErrorPanic(e) == [type |-> "error", err |-> e]

StringPanic == [type |-> "string", err |-> Nil]

IsEhError(p) == p.type = "ehError"

IsFatal(p) == p.type \in {"error", "string"}

(* The outcome of a call that either returns (a value, or an error for     *)
(* MustUnwrapErr) or panics.                                              *)
Returned(v) == [done |-> TRUE, val |-> v, err |-> Nil, pan |-> NilPanic]

ReturnedErr(e) == [done |-> TRUE, val |-> Zero, err |-> e, pan |-> NilPanic]

Panicked(p) == [done |-> FALSE, val |-> Zero, err |-> Nil, pan |-> p]

(* Faulty variant: gives back the zero value instead of the payload. *)
EhDropsPayload(r) == IF r.Err # Nil THEN Panicked(ehError(r.Err)) ELSE Returned(Zero)

Eh(r) == IF r.Err # Nil THEN Panicked(ehError(r.Err)) ELSE Returned(r.Ok)

(* Faulty variant: panics with the wrapper Eh uses. *)
MustUnwrapWrapsError(r) == IF r.Err # Nil THEN Panicked(ehError(r.Err)) ELSE Returned(r.Ok)

MustUnwrap(r) == IF r.Err # Nil THEN Panicked(ErrorPanic(r.Err)) ELSE Returned(r.Ok)

MustUnwrapErr(r) == IF r.Err = Nil THEN Panicked(StringPanic) ELSE ReturnedErr(r.Err)

----------------------------------------------------------------------------
(* Recovery functions (the `catcher` argument of CatchError).  A catcher   *)
(* is called at most once per firing, so what it does on that call is all  *)
(* that matters:                                                           *)
(*   "return"      func(error) int { return val }                          *)
(*   "Eh"          func(error) int { FromFailable(err).Eh(); return val }  *)
(*   "MustUnwrap"  func(error) int { return NewResult(val,err).MustUnwrap() } *)

Catcher(k, v, e) == [kind |-> k, val |-> v, err |-> e]

NoCatcher == Catcher("none", Zero, Nil)

CallCatcher(c, err) ==
    CASE c.kind = "Eh" ->
            LET o == Eh(FromFailable(c.err))
            IN  IF o.done THEN Returned(c.val) ELSE o
      [] c.kind = "MustUnwrap" -> MustUnwrap(NewResult(c.val, c.err))
      [] OTHER -> Returned(c.val)

----------------------------------------------------------------------------
(* The deferred library functions.  Each works on a machine state          *)
(*   m = [res, pan, calls]                                                 *)
(* res is the Result behind the pointer, pan the panic in flight when the  *)
(* function is entered as a deferred call, calls the arguments the         *)
(* recovery function has been invoked with, in order.  recover() in a      *)
(* function that the runtime runs as a deferred call returns the panic in  *)
(* flight and stops it; panic(r) puts r in flight again.                   *)

Machine(r, p) == [res |-> r, pan |-> p, calls |-> <<>>]

(* Faulty variant: absorbs every panic, not only an ehError. *)
EscapeHatchSwallowAll(m) ==
    IF m.pan # NilPanic
    THEN [m EXCEPT !.res = Result(Zero, m.pan.err), !.pan = NilPanic]
    ELSE m

(* Faulty variant: stores the error but keeps the old payload. *)
EscapeHatchKeepPayload(m) ==
    LET r == m.pan
        m1 == [m EXCEPT !.pan = NilPanic]
    IN  IF r # NilPanic
        THEN IF ~IsEhError(r)
             THEN [m1 EXCEPT !.pan = r]
             ELSE [m1 EXCEPT !.res = Result(m.res.Ok, r.err)]
        ELSE m1

(* Faulty variant: clears the Result also when nothing is unwinding. *)
EscapeHatchAlwaysWrites(m) ==
    LET r == m.pan
        m1 == [m EXCEPT !.pan = NilPanic]
    IN  IF r # NilPanic /\ ~IsEhError(r)
        THEN [m1 EXCEPT !.pan = r]
        ELSE [m1 EXCEPT !.res = Result(Zero, r.err)]

(* Faulty variant: recovers an ehError and forgets to store it. *)
EscapeHatchForgetsResult(m) ==
    LET r == m.pan
        m1 == [m EXCEPT !.pan = NilPanic]
    IN  IF r # NilPanic /\ ~IsEhError(r) THEN [m1 EXCEPT !.pan = r] ELSE m1

(* Faulty variant: never recovers. *)
EscapeHatchNoAbsorb(m) == m

EscapeHatch(m) ==
    LET r == m.pan                              \* r := recover()
        m1 == [m EXCEPT !.pan = NilPanic]
    IN  IF r # NilPanic
        THEN IF ~IsEhError(r)
             THEN [m1 EXCEPT !.pan = r]         \* panic(r)
             ELSE [m1 EXCEPT !.res = Result(Zero, r.err)]
        ELSE m1

(* Faulty variant: without the deferred write back into *err. *)
EscapeHatchErrNoWriteBack(m) ==
    LET tmp == FromFailable(m.res.Err)
        m1 == [m EXCEPT !.res = tmp]
        m2 == EscapeHatch(m1)
    IN  [m2 EXCEPT !.res = m.res]

(* EscapeHatchErr(err): err points at an error variable holding m.res.Err. *)
EscapeHatchErr(m) ==
    LET tmp == FromFailable(m.res.Err)           \* res := FromFailable(*err)
        r == m.pan                               \* r := recover()
        m1 == [m EXCEPT !.res = tmp, !.pan = r]  \* panic(r) when r # nil
        m2 == EscapeHatch(m1)                    \* defer EscapeHatch(&res)
        e == Unwrap(m2.res)[2]                   \* _, *err = res.Unwrap()
    IN  [m2 EXCEPT !.res = [m.res EXCEPT !.Err = e]]


(* `when ...error`: a nil slice (no variadic argument given) or a slice.   *)
NilWhen == [isNil |-> TRUE, list |-> <<>>]

Slice(l) == [isNil |-> FALSE, list |-> l]

(* Faulty variant: stores the recovery value but keeps the failure. *)
InvokeKeepsErr(m, catcher, err) ==
    LET o == CallCatcher(catcher, err)
        m1 == [m EXCEPT !.calls = Append(m.calls, err)]
    IN  IF o.done
        THEN [m1 EXCEPT !.res = Result(o.val, err)]
        ELSE [m1 EXCEPT !.pan = o.pan]

(* *res = Result[T]{Ok: catcher(err)}: the catcher runs first; when it     *)
(* panics nothing is assigned and its panic replaces the one in flight.    *)
Invoke(m, catcher, err) ==
    LET o == CallCatcher(catcher, err)
        m1 == [m EXCEPT !.calls = Append(m.calls, err)]
    IN  IF o.done
        THEN [m1 EXCEPT !.res = Result(o.val, Nil)]
        ELSE [m1 EXCEPT !.pan = o.pan]

(* Faulty variant: without the break, the loop goes on after a match. *)
RECURSIVE RangeWhenNoBreak(_, _, _, _, _)
RangeWhenNoBreak(m, catcher, err, list, i) ==
    IF i > Len(list) THEN m
    ELSE IF ~errorsIs(err, list[i])
         THEN RangeWhenNoBreak(m, catcher, err, list, i + 1)
         ELSE LET m1 == Invoke(m, catcher, err)
              IN  IF m1.pan # m.pan THEN m1
                  ELSE RangeWhenNoBreak(m1, catcher, err, list, i + 1)

(* for _, target := range when { ... break } from index i on. *)
RECURSIVE RangeWhen(_, _, _, _, _)
RangeWhen(m, catcher, err, list, i) ==
    IF i > Len(list) THEN m
    ELSE IF ~errorsIs(err, list[i])
         THEN RangeWhen(m, catcher, err, list, i + 1)    \* continue
         ELSE Invoke(m, catcher, err)                    \* break

(* Faulty variant: recovers from every failure, whatever the target list. *)
CatchErrorClosureIgnoresWhen(m, catcher, when) ==
    IF IsOk(m.res) THEN m
    ELSE Invoke(m, catcher, MustUnwrapErr(m.res).err)

(* Faulty variant: without the res.IsOk() early return. *)
CatchErrorClosureNoOkCheck(m, catcher, when) ==
    LET o == MustUnwrapErr(m.res)
    IN  IF ~o.done THEN [m EXCEPT !.pan = o.pan]
        ELSE IF when.isNil
             THEN Invoke(m, catcher, o.err)
             ELSE RangeWhen(m, catcher, o.err, when.list, 1)

(* The closure CatchError defers first, so it runs last. *)
CatchErrorClosure(m, catcher, when) ==
    IF IsOk(m.res) THEN m
    ELSE LET err == MustUnwrapErr(m.res).err
         IN  IF when.isNil
             THEN Invoke(m, catcher, err)
             ELSE RangeWhen(m, catcher, err, when.list, 1)

(* Faulty variant: without the deferred EscapeHatch(res). *)
CatchErrorWithoutHatch(m, catcher, when) == CatchErrorClosure(m, catcher, when)

(* Faulty variant: raises the interruption again when no target matched. *)
CatchErrorRepanicsUnmatched(m, catcher, when) ==
    LET m2 == EscapeHatch(m)
        m3 == CatchErrorClosure(m2, catcher, when)
    IN  IF IsEhError(m.pan) /\ m3.calls = <<>> /\ m3.pan = NilPanic
        THEN [m3 EXCEPT !.pan = m.pan]
        ELSE m3

CatchError(m, catcher, when) ==
    LET r == m.pan                          \* r := recover()
        m1 == [m EXCEPT !.pan = r]          \* panic(r) when r # nil
        m2 == EscapeHatch(m1)               \* defer EscapeHatch(res)
    IN  CatchErrorClosure(m2, catcher, when)

(* Faulty variant: recovers and does not panic again. *)
FallbackSwallowsPanic(m, fallback, when) ==
    CatchError([m EXCEPT !.pan = NilPanic], Catcher("return", fallback, Nil), when)

Fallback(m, fallback, when) ==
    LET r == m.pan                          \* r := recover()
        m1 == [m EXCEPT !.pan = r]          \* panic(r) when r # nil
    IN  CatchError(m1, Catcher("return", fallback, Nil), when)

----------------------------------------------------------------------------
(* Deferred calls as the function registers them. *)

Handler(k, w, v) == [kind |-> k, when |-> w, fallback |-> v]

(* The deferred call h, run on m; c is what the recovery function handed  *)
(* to CatchError does when called.                                         *)
RunHandler(h, c, m) ==
    CASE h.kind = "EscapeHatch" -> EscapeHatch(m)
      [] h.kind = "EscapeHatchErr" -> EscapeHatchErr(m)
      [] h.kind = "CatchError" -> CatchError(m, c, h.when)
      [] OTHER -> Fallback(m, h.fallback, h.when)

(* The recovery function h ends up with: Fallback builds its own. *)
CatcherOf(h, c) ==
    CASE h.kind = "CatchError" -> c
      [] h.kind = "Fallback" -> Catcher("return", h.fallback, Nil)
      [] OTHER -> NoCatcher

RECURSIVE SeqsUpTo(_, _)
SeqsUpTo(S, n) ==
    IF n = 0 THEN {<<>>}
    ELSE LET shorter == SeqsUpTo(S, n - 1)
         IN  shorter \cup {Append(q, x) : q \in shorter, x \in S}

(* Target lists: nil, or up to MaxTargets sentinels (repeats allowed). *)
Whens == {NilWhen} \cup {Slice(l) : l \in SeqsUpTo(SentinelErrs, MaxTargets)}

(* In a chain of several handlers each one is a catch-all or names one     *)
(* sentinel, as in eh_test.go.                                             *)
ChainWhens == {NilWhen} \cup {Slice(<<e>>) : e \in SentinelErrs}

MarkerHandlers ==
    {Handler("EscapeHatch", NilWhen, Zero), Handler("EscapeHatchErr", NilWhen, Zero)}

ChainHandlers ==
    MarkerHandlers
        \cup {Handler("CatchError", w, Zero) : w \in ChainWhens}
        \cup {Handler("Fallback", w, FallbackVal) : w \in ChainWhens}

Handlers ==
    MarkerHandlers
        \cup {Handler("CatchError", w, Zero) : w \in Whens}
        \cup {Handler("Fallback", w, v) : w \in Whens, v \in (Vals \ {Zero}) \cup {FallbackVal}}

Catchers ==
    {Catcher("return", v, Nil) : v \in Vals}
        \cup {Catcher("Eh", Zero, e) : e \in SentinelErrs}
        \cup {Catcher("MustUnwrap", Zero, <<"E3">>)}

CatchersFor(h) == IF h.kind = "CatchError" THEN Catchers ELSE {NoCatcher}

Results == {Result(v, e) : v \in Vals, e \in {Nil} \cup Errs}

(* What the function body works with in a chain: sentinel failures. *)
BodyResults ==
    {Result(v, Nil) : v \in Vals} \cup {Result(Zero, e) : e \in SentinelErrs}

Panics ==
    {NilPanic, StringPanic}
        \cup {ehError(e) : e \in Errs}
        \cup {ErrorPanic(e) : e \in Errs}

NoCall == [op |-> "none", arg |-> Result(Zero, Nil), out |-> Returned(Zero)]

----------------------------------------------------------------------------
(* The function: registration, body, exit. *)

Init ==
    /\ pc = "body"
    /\ res = Result(Zero, Nil)
    /\ pan = NilPanic
    /\ registered = <<>>
    /\ defers = <<>>
    /\ fired = <<>>
    /\ last = [res |-> res, pan |-> pan]
    /\ ret = NoCall
    /\ slots = <<>>
    /\ wg = 0
    /\ stack = <<>>

(* defer h(&res, ...) *)
Defer(h) ==
    /\ pc = "body"
    /\ Len(registered) < MaxDefers
    /\ registered' = Append(registered, h)
    /\ defers' = Append(defers, [id |-> Len(registered) + 1, h |-> h])
    /\ ret' = NoCall
    /\ UNCHANGED <<pc, res, pan, fired, last, slots, wg, stack>>

(* res = x: the body writes its named result. *)
Assign(x) ==
    /\ pc = "body"
    /\ res' = x
    /\ ret' = NoCall
    /\ UNCHANGED <<pc, pan, registered, defers, fired, last, slots, wg, stack>>

(* A call op(x) in the body: it gives a value back and the body goes on,   *)
(* or it panics and the function starts to unwind.                         *)
Call(op, x, o) ==
    /\ pc = "body"
    /\ ret' = [op |-> op, arg |-> x, out |-> o]
    /\ IF o.done
       THEN UNCHANGED <<pc, pan>>
       ELSE pc' = "exiting" /\ pan' = o.pan
    /\ UNCHANGED <<res, registered, defers, fired, last, slots, wg, stack>>

CallEh(x) == Call("Eh", x, Eh(x))

CallMustUnwrap(x) == Call("MustUnwrap", x, MustUnwrap(x))

CallMustUnwrapErr(x) == Call("MustUnwrapErr", x, MustUnwrapErr(x))

(* return x: the named result is set, then the deferred calls run. *)
Return(x) ==
    /\ pc = "body"
    /\ res' = x
    /\ pc' = "exiting"
    /\ ret' = [op |-> "return", arg |-> x, out |-> Returned(Zero)]
    /\ UNCHANGED <<pan, registered, defers, fired, last, slots, wg, stack>>

FiredRecord(d, c, out) ==
    [id |-> d.id, h |-> d.h,
     catcher |-> IF out.calls # <<>> THEN CatcherOf(d.h, c) ELSE NoCatcher,
     calls |-> out.calls]

(* Faulty variant: runs the deferred calls in registration order. *)
FirstRegistered(ds) == 1

(* Which deferred call runs next: the one registered last. *)
NextDeferred(ds) == Len(ds)

(* Faulty variant: drops the oldest deferred call instead of the one that ran. *)
RemoveFirst(ds, i) == SubSeq(ds, 2, Len(ds))

Remove(ds, i) == SubSeq(ds, 1, i - 1) \o SubSeq(ds, i + 1, Len(ds))

(* The runtime runs the next deferred call. *)
RunDeferred ==
    /\ pc = "exiting"
    /\ defers # <<>>
    /\ LET i == NextDeferred(defers)
           d == defers[i]
           m == Machine(res, pan)
       IN  \E c \in CatchersFor(d.h) :
              LET out == RunHandler(d.h, c, m)
              IN  /\ res' = out.res
                  /\ pan' = out.pan
                  /\ defers' = Remove(defers, i)
                  /\ fired' = Append(fired, FiredRecord(d, c, out))
                  /\ last' = [res |-> res, pan |-> pan]
    /\ UNCHANGED <<pc, registered, ret, slots, wg, stack>>

(* No deferred call is left: the function returns to its caller, or the    *)
(* panic still in flight goes on into the caller.                          *)
Finish ==
    /\ pc = "exiting"
    /\ defers = <<>>
    /\ pc' = IF pan = NilPanic THEN "returned" ELSE "panicked"
    /\ UNCHANGED <<res, pan, registered, defers, fired, last, ret, slots, wg, stack>>

Next ==
    \/ \E h \in ChainHandlers : Defer(h)
    \/ \E x \in BodyResults : Assign(x)
    \/ \E x \in BodyResults : CallEh(x)
    \/ CallMustUnwrap(res)
    \/ CallMustUnwrapErr(res)
    \/ \E x \in BodyResults : Return(x)
    \/ RunDeferred
    \/ Finish

Spec == Init /\ [][Next]_vars

(* The runtime always runs the deferred calls of a function that is        *)
(* leaving, and then leaves it.                                            *)
FairSpec == Spec /\ WF_vars(RunDeferred) /\ WF_vars(Finish)

----------------------------------------------------------------------------
(* One deferred call on every input: the function is leaving with a single *)
(* deferred call registered, its Result and the panic in flight arbitrary. *)

InitFire ==
    /\ pc = "exiting"
    /\ res \in Results
    /\ pan \in Panics
    /\ \E h \in Handlers :
          /\ registered = <<h>>
          /\ defers = <<[id |-> 1, h |-> h]>>
    /\ fired = <<>>
    /\ last = [res |-> res, pan |-> pan]
    /\ ret = NoCall
    /\ slots = <<>>
    /\ wg = 0
    /\ stack = <<>>

NextFire == RunDeferred \/ Finish

SpecFire == InitFire /\ [][NextFire]_vars

----------------------------------------------------------------------------
(* Goroutines, as in TestGoRoutines.  main owns one Result per goroutine,  *)
(* adds them to a WaitGroup, starts them and waits.  A goroutine runs      *)
(* doDivideGoRoutine, which stores NewResult(divide(x, y)) behind its      *)
(* pointer, or the same function with the division made through            *)
(* doDivideMultiple, which defers its own EscapeHatch and calls Eh.        *)
(* A panic belongs to the goroutine that raised it: recover() in a         *)
(* deferred call of goroutine g returns the panic in flight in g.          *)

NumGoroutines == 3

Goroutines == 1 .. NumGoroutines

Main == 0

(* go doDivideGoRoutine(4, 2, ...), (4, 0, ...), (5, 0, ...) *)
Args == <<<<4, 2>>, <<4, 0>>, <<5, 0>>>>

DivideByZero == <<"divide by zero">>

divide(x, y) == IF y = 0 THEN <<0, DivideByZero>> ELSE <<x \div y, Nil>>

WgDone == Handler("wg.Done", NilWhen, Zero)

TheEscapeHatch == Handler("EscapeHatch", NilWhen, Zero)

(* Faulty variant: recover() returns a panic in flight in any goroutine. *)
PanicOfAny(p, g) ==
    IF p[g] # NilPanic THEN p[g]
    ELSE IF \E h \in Goroutines : p[h] # NilPanic
         THEN p[CHOOSE h \in Goroutines : p[h] # NilPanic]
         ELSE NilPanic

(* What recover() returns in a deferred call of goroutine g. *)
PanicOf(p, g) == p[g]

InitGo ==
    /\ pc = [g \in {Main} \cup Goroutines |-> IF g = Main THEN "spawn" ELSE "idle"]
    /\ res = [g \in Goroutines |-> Result(Zero, Nil)]
    /\ pan = [g \in Goroutines |-> NilPanic]
    /\ registered = [g \in Goroutines |-> <<>>]
    /\ defers = [g \in Goroutines |-> <<>>]
    /\ fired = [g \in Goroutines |-> <<>>]
    /\ last = [res |-> Result(Zero, Nil), pan |-> NilPanic]
    /\ ret = [g \in Goroutines |-> NoCall]
    /\ slots = [g \in Goroutines |-> Result(Zero, Nil)]
    /\ wg = NumGoroutines
    /\ stack = <<>>

(* go doDivideGoRoutine(x, y, &res_g, &wg): main starts the next goroutine. *)
MainGo ==
    /\ pc[Main] = "spawn"
    /\ LET g == CHOOSE h \in Goroutines :
                   pc[h] = "idle" /\ \A k \in Goroutines : k < h => pc[k] # "idle"
       IN  pc' = [pc EXCEPT ![g] = "start",
                            ![Main] = IF g = NumGoroutines THEN "wait" ELSE "spawn"]
    /\ UNCHANGED <<res, pan, registered, defers, fired, last, ret, slots, wg, stack>>

(* wg.Wait() returns once the counter is zero; main then reads the slots. *)
MainWait ==
    /\ pc[Main] = "wait"
    /\ wg = 0
    /\ pc' = [pc EXCEPT ![Main] = "read"]
    /\ UNCHANGED <<res, pan, registered, defers, fired, last, ret, slots, wg, stack>>

GoPush(g, h) ==
    /\ registered' = [registered EXCEPT ![g] = Append(@, h)]
    /\ defers' = [defers EXCEPT ![g] = Append(@, [id |-> Len(registered[g]) + 1, h |-> h])]

(* defer wg.Done() *)
GoDeferDone(g) ==
    /\ pc[g] = "start"
    /\ GoPush(g, WgDone)
    /\ pc' = [pc EXCEPT ![g] = "body"]
    /\ UNCHANGED <<res, pan, fired, last, ret, slots, wg, stack>>

(* *res = NewResult(divide(x, y)) *)
GoStore(g) ==
    /\ pc[g] = "body"
    /\ LET d == divide(Args[g][1], Args[g][2])
       IN  slots' = [slots EXCEPT ![g] = NewResult(d[1], d[2])]
    /\ pc' = [pc EXCEPT ![g] = "exiting"]
    /\ UNCHANGED <<res, pan, registered, defers, fired, last, ret, wg, stack>>

(* *res = doDivideMultiple(x, y): the call is entered, defer EscapeHatch(&res) *)
GoCall(g) ==
    /\ pc[g] = "body"
    /\ GoPush(g, TheEscapeHatch)
    /\ pc' = [pc EXCEPT ![g] = "called"]
    /\ UNCHANGED <<res, pan, fired, last, ret, slots, wg, stack>>

(* val := NewResult(divide(x, y)).Eh() *)
GoEh(g) ==
    /\ pc[g] = "called"
    /\ LET d == divide(Args[g][1], Args[g][2])
           x == NewResult(d[1], d[2])
           o == Eh(x)
       IN  /\ ret' = [ret EXCEPT ![g] = [op |-> "Eh", arg |-> x, out |-> o]]
           /\ IF o.done
              THEN pc' = [pc EXCEPT ![g] = "go on"] /\ pan' = pan
              ELSE pc' = [pc EXCEPT ![g] = "unwinding"] /\ pan' = [pan EXCEPT ![g] = o.pan]
    /\ UNCHANGED <<res, registered, defers, fired, last, slots, wg, stack>>

(* return NewResult(divide(val+2, y)) *)
GoReturn(g) ==
    /\ pc[g] = "go on"
    /\ LET d == divide(ret[g].out.val + 2, Args[g][2])
       IN  res' = [res EXCEPT ![g] = NewResult(d[1], d[2])]
    /\ pc' = [pc EXCEPT ![g] = "unwinding"]
    /\ UNCHANGED <<pan, registered, defers, fired, last, ret, slots, wg, stack>>

GoFired(g, d) == [id |-> d.id, h |-> d.h, seen |-> PanicOf(pan, g), all |-> pan]

(* doDivideMultiple leaves: its deferred EscapeHatch runs in goroutine g. *)
GoEscapeHatch(g) ==
    /\ pc[g] = "unwinding"
    /\ defers[g] # <<>>
    /\ LET i == NextDeferred(defers[g])
           d == defers[g][i]
           out == EscapeHatch(Machine(res[g], PanicOf(pan, g)))
       IN  /\ d.h = TheEscapeHatch
           /\ res' = [res EXCEPT ![g] = out.res]
           /\ pan' = [pan EXCEPT ![g] = out.pan]
           /\ defers' = [defers EXCEPT ![g] = Remove(@, i)]
           /\ fired' = [fired EXCEPT ![g] = Append(@, GoFired(g, d))]
           /\ pc' = [pc EXCEPT ![g] = IF out.pan = NilPanic THEN "returned" ELSE "exiting"]
    /\ UNCHANGED <<registered, last, ret, slots, wg, stack>>

(* *res = <what doDivideMultiple returned> *)
GoAssign(g) ==
    /\ pc[g] = "returned"
    /\ slots' = [slots EXCEPT ![g] = res[g]]
    /\ pc' = [pc EXCEPT ![g] = "exiting"]
    /\ UNCHANGED <<res, pan, registered, defers, fired, last, ret, wg, stack>>

(* The goroutine's function leaves: its deferred wg.Done() runs. *)
GoWgDone(g) ==
    /\ pc[g] = "exiting"
    /\ defers[g] # <<>>
    /\ LET i == NextDeferred(defers[g])
           d == defers[g][i]
       IN  /\ d.h = WgDone
           /\ wg' = wg - 1
           /\ defers' = [defers EXCEPT ![g] = Remove(@, i)]
           /\ fired' = [fired EXCEPT ![g] = Append(@, GoFired(g, d))]
           /\ pc' = [pc EXCEPT ![g] = IF pan[g] = NilPanic THEN "done" ELSE "crashed"]
    /\ UNCHANGED <<res, pan, registered, last, ret, slots, stack>>

NextGo ==
    \/ MainGo
    \/ MainWait
    \/ \E g \in Goroutines : GoDeferDone(g)
    \/ \E g \in Goroutines : GoStore(g)
    \/ \E g \in Goroutines : GoCall(g)
    \/ \E g \in Goroutines : GoEh(g)
    \/ \E g \in Goroutines : GoReturn(g)
    \/ \E g \in Goroutines : GoEscapeHatch(g)
    \/ \E g \in Goroutines : GoAssign(g)
    \/ \E g \in Goroutines : GoWgDone(g)

SpecGo == InitGo /\ [][NextGo]_vars

----------------------------------------------------------------------------
(* doDivide of eh_test.go: defer EscapeHatch(&res), then                   *)
(* return NewResult(divide(x, y)), with no Eh on the way.                  *)

Operands == 0 .. MaxOperand

(* return NewResult(divide(x, y)); ret keeps the operands of the call. *)
ReturnDivide(x, y) ==
    /\ pc = "body"
    /\ registered # <<>>
    /\ LET d == divide(x, y)
       IN  /\ res' = NewResult(d[1], d[2])
           /\ ret' = [op |-> "doDivide", x |-> x, y |-> y, arg |-> NewResult(d[1], d[2]),
                      out |-> Returned(Zero)]
    /\ pc' = "exiting"
    /\ UNCHANGED <<pan, registered, defers, fired, last, slots, wg, stack>>

NextDivide ==
    \/ registered = <<>> /\ Defer(TheEscapeHatch)
    \/ \E x \in Operands, y \in Operands : ReturnDivide(x, y)
    \/ RunDeferred
    \/ Finish

SpecDivide == Init /\ [][NextDivide]_vars

----------------------------------------------------------------------------
(* Result values on their own: a Result is built with NewResult from any   *)
(* value and any error, and then queried.  last holds the arguments of     *)
(* NewResult, res the Result it returned, fired the queries made on it     *)
(* since, each with what it returned.                                      *)

InitValue ==
    /\ pc = "new"
    /\ res = Result(Zero, Nil)
    /\ pan = NilPanic
    /\ registered = <<>>
    /\ defers = <<>>
    /\ fired = <<>>
    /\ last = [val |-> Zero, err |-> Nil]
    /\ ret = NoCall
    /\ slots = <<>>
    /\ wg = 0
    /\ stack = <<>>

(* res = NewResult(val, err) *)
CallNewResult(val, err) ==
    /\ res' = NewResult(val, err)
    /\ last' = [val |-> val, err |-> err]
    /\ fired' = <<>>
    /\ pc' = "built"
    /\ UNCHANGED <<pan, registered, defers, ret, slots, wg, stack>>

(* A method with a value receiver, or a function taking the Result by      *)
(* value: it works on a copy, and res stays as it is.                      *)
Query(op, out) ==
    /\ pc = "built"
    /\ Len(fired) < MaxQueries
    /\ fired' = Append(fired, [op |-> op, out |-> out])
    /\ UNCHANGED <<pc, res, pan, registered, defers, last, ret, slots, wg, stack>>

CallIsOk == Query("IsOk", IsOk(res))

CallIsErr == Query("IsErr", IsErr(res))

CallUnwrap == Query("Unwrap", Unwrap(res))

CallUnwrapFunc == Query("UnwrapFunc", UnwrapFunc(res))

NextValue ==
    \/ \E val \in Vals, err \in {Nil} \cup Errs : CallNewResult(val, err)
    \/ CallIsOk
    \/ CallIsErr
    \/ CallUnwrap
    \/ CallUnwrapFunc

SpecValue == InitValue /\ [][NextValue]_vars

----------------------------------------------------------------------------
(* The legacy API (ReturnIfErr): the exported wrapper Error{WrappedErr}    *)
(* and its method                                                          *)
(*     func (e Error) Error() string { return e.Error() }                  *)
(* whose only statement calls the same method on the same receiver, so a   *)
(* frame of Error() can return only after another frame of Error() has.    *)
(* Error() of a wrapped error itself (errors.New, fmt.Errorf) makes no     *)
(* call and returns its message.  The goroutine's stack has room for       *)
(* MaxStack frames; the runtime ends the program with "stack overflow"     *)
(* when a call needs one more.                                             *)

Error(e) == [type |-> "Error", WrappedErr |-> e]

ErrorFrame(e) == [fn |-> "Error.Error", recv |-> e]

ErrFrame(err) == [fn |-> "error.Error", recv |-> err]

(* The call the body of e.Error() makes: e.Error(). *)
CalleeOfError(e) == ErrorFrame(e)

InitLegacy ==
    /\ pc = "body"
    /\ res = Result(Zero, Nil)
    /\ pan = NilPanic
    /\ registered = <<>>
    /\ defers = <<>>
    /\ fired = <<>>
    /\ last = [res |-> res, pan |-> pan]
    /\ ret = NoCall
    /\ slots = <<>>
    /\ wg = 0
    /\ stack = <<>>

(* Error{err}.Error() is called on a wrapper of err. *)
CallError(err) ==
    /\ pc = "body"
    /\ stack = <<>>
    /\ stack' = <<ErrorFrame(Error(err))>>
    /\ pc' = "in Error"
    /\ UNCHANGED <<res, pan, registered, defers, fired, last, ret, slots, wg>>

(* err.Error() is called on an error that is not a wrapper, as in          *)
(* t.Log(err.Error()).                                                     *)
CallErrError(err) ==
    /\ pc = "body"
    /\ stack = <<>>
    /\ stack' = <<ErrFrame(err)>>
    /\ pc' = "in Error"
    /\ UNCHANGED <<res, pan, registered, defers, fired, last, ret, slots, wg>>

(* The frame on top is Error() of a plain error: it returns its message to *)
(* the body.                                                               *)
ReturnString ==
    /\ pc = "in Error"
    /\ Len(stack) = 1
    /\ stack[1].fn = "error.Error"
    /\ stack' = <<>>
    /\ pc' = "body"
    /\ ret' = [op |-> "Error", arg |-> Result(Zero, stack[1].recv), out |-> Returned(Zero)]
    /\ UNCHANGED <<res, pan, registered, defers, fired, last, slots, wg>>

(* return e.Error(): the frame on top makes its call. *)
ErrorCallsError ==
    /\ pc = "in Error"
    /\ Len(stack) < MaxStack
    /\ stack[Len(stack)].fn = "Error.Error"
    /\ stack' = Append(stack, CalleeOfError(stack[Len(stack)].recv))
    /\ UNCHANGED <<pc, res, pan, registered, defers, fired, last, ret, slots, wg>>

(* The call needs a frame the stack has no room for. *)
StackOverflow ==
    /\ pc = "in Error"
    /\ Len(stack) = MaxStack
    /\ stack[Len(stack)].fn = "Error.Error"
    /\ pc' = "stack overflow"
    /\ UNCHANGED <<res, pan, registered, defers, fired, last, ret, slots, wg, stack>>

NextLegacy ==
    \/ \E err \in Errs : CallError(err)
    \/ \E err \in Errs : CallErrError(err)
    \/ ReturnString
    \/ ErrorCallsError
    \/ StackOverflow

SpecLegacy == InitLegacy /\ [][NextLegacy]_vars

----------------------------------------------------------------------------
(* Vocabulary of the properties. *)

Finished == pc \in {"returned", "panicked"}

LastFired == fired[Len(fired)]

FatalTypes == {"error", "string"}

(* d equals target or wraps it somewhere along its Unwrap chain. *)
EqualsOrWraps(d, target) ==
    \E i \in 1 .. Len(d) : SubSeq(d, i, Len(d)) = target

OnlyEscapeHatch ==
    /\ registered # <<>>
    /\ \A i \in 1 .. Len(registered) : registered[i].kind = "EscapeHatch"

OnlyEscapeHatchErr ==
    /\ registered # <<>>
    /\ \A i \in 1 .. Len(registered) : registered[i].kind = "EscapeHatchErr"

EscapeHatchThenHandlers ==
    /\ registered # <<>>
    /\ registered[1].kind = "EscapeHatch"
    /\ \A i \in 2 .. Len(registered) : registered[i].kind \in {"CatchError", "Fallback"}

----------------------------------------------------------------------------
(* C1: Eh on an Err Result with descriptor e does not return to the body   *)
(* (the body runs no further statement), and a function whose deferred     *)
(* calls are EscapeHatch on its named Result returns normally with         *)
(* Result{Ok: zero, Err: e}, whatever the slot held before.                *)
C1_EhErrEndsInEscapeHatch ==
    (ret.op = "Eh" /\ ret.arg.Err # Nil) =>
        /\ ~ret.out.done
        /\ pc # "body"
        /\ (OnlyEscapeHatch /\ fired # <<>>) =>
              (res = [Ok |-> 0, Err |-> ret.arg.Err] /\ pan = NilPanic)
        /\ (OnlyEscapeHatch /\ Finished) =>
              (pc = "returned" /\ res = [Ok |-> 0, Err |-> ret.arg.Err])

C1_Witness ==
    /\ pc = "returned"
    /\ ret.op = "Eh"
    /\ ret.arg.Err = <<"E1">>
    /\ Len(registered) = 1
    /\ OnlyEscapeHatch
    /\ last.res = [Ok |-> 1, Err |-> Nil]
    /\ res = [Ok |-> 0, Err |-> <<"E1">>]

(* C2: Eh on an Ok Result gives back exactly the payload, raises nothing,  *)
(* and the body goes on; the named Result and the deferred calls are left  *)
(* as they were.                                                           *)
C2_EhOkReturnsPayload ==
    [][(pc = "body" /\ ret'.op = "Eh" /\ ret'.arg.Err = Nil) =>
          /\ ret'.out.done
          /\ ret'.out.val = ret'.arg.Ok
          /\ ret'.out.pan = NilPanic
          /\ pc' = "body"
          /\ pan' = NilPanic
          /\ res' = res
          /\ defers' = defers
          /\ registered' = registered
          /\ fired' = fired]_vars

C2_Witness ==
    /\ pc = "body"
    /\ ret.op = "Eh"
    /\ ret.out.done
    /\ ret.arg.Ok = 1
    /\ ret.out.val = 1
    /\ registered # <<>>
    /\ res.Err # Nil

(* C3: in a function that defers EscapeHatch first and then CatchError /   *)
(* Fallback handlers, an Eh interruption never reaches the caller, and     *)
(* whenever one is unwinding the function goes on to return normally       *)
(* (unless a recovery function raises a fatal fault of its own).           *)
C3_EhExitAlwaysReturns ==
    /\ [](EscapeHatchThenHandlers /\ pc = "panicked" => pan.type # "ehError")
    /\ (EscapeHatchThenHandlers /\ pc = "exiting" /\ pan.type = "ehError")
          ~> (pc = "returned" \/ pan.type \in FatalTypes)

C3_Witness ==
    /\ pc = "returned"
    /\ EscapeHatchThenHandlers
    /\ Len(registered) = 3
    /\ ret.op = "Eh"
    /\ ~ret.out.done
    /\ fired[2].catcher.kind = "Eh"
    /\ res.Err # Nil

(* C4: a panic that is not an ehError and unwinds through a deferred       *)
(* EscapeHatch is raised again with the same value, the Result behind the  *)
(* pointer is left unchanged, and the panic leaves the function.           *)
C4_EscapeHatchRepanicsFatal ==
    (fired # <<>> /\ LastFired.h.kind = "EscapeHatch" /\ last.pan.type \in FatalTypes) =>
        /\ pan = last.pan
        /\ res = last.res
        /\ Finished => pc = "panicked"

C4_Witness ==
    /\ pc = "panicked"
    /\ fired # <<>>
    /\ LastFired.h.kind = "EscapeHatch"
    /\ last.pan = [type |-> "error", err |-> <<"E1">>]
    /\ res.Err = <<"E1">>

(* The failure the body left with: by Eh on an Err Result or by returning *)
(* an Err Result.                                                          *)
BodyFailed == ret.op \in {"Eh", "return"} /\ ret.arg.Err # Nil

BodyFailure == ret.arg.Err

Matches(h, d) ==
    \/ h.when.isNil
    \/ \E k \in 1 .. Len(h.when.list) : EqualsOrWraps(d, h.when.list[k])

IsHandler(h) == h.kind \in {"CatchError", "Fallback"}

(* The history record of the deferred call registered as number id. *)
FiredOf(id) == fired[CHOOSE k \in 1 .. Len(fired) : fired[k].id = id]

(* C5 (as claimed): a fatal fault raised by MustUnwrap / MustUnwrapErr in  *)
(* the body is never absorbed by the deferred calls: the function does not *)
(* return normally.                                                        *)
C5_FatalNeverAbsorbed ==
    (Finished /\ ret.op \in {"MustUnwrap", "MustUnwrapErr"} /\ ~ret.out.done) =>
        pc = "panicked"

(* C6: deferred calls run in strict reverse order of registration.  With   *)
(* H1 registered just before H2, the last one: when H2's targets do not    *)
(* match the failure and H1's do, H1 recovers and the function returns Ok  *)
(* with H1's recovery value; when both match, H2 recovers, the function    *)
(* returns Ok with H2's recovery value and H1's recovery function is not   *)
(* invoked.                                                                *)
C6_ReverseOrderOfRegistration ==
    /\ \A k \in 1 .. Len(fired) : fired[k].id = Len(registered) - k + 1
    /\ (/\ Finished
        /\ BodyFailed
        /\ Len(registered) >= 2
        /\ IsHandler(registered[Len(registered) - 1])
        /\ IsHandler(registered[Len(registered)])) =>
          LET n == Len(registered)
              d == BodyFailure
              R1 == FiredOf(n - 1)
              R2 == FiredOf(n)
          IN  /\ (~Matches(R2.h, d) /\ Matches(R1.h, d)) =>
                    /\ R2.calls = <<>>
                    /\ R1.calls = <<d>>
                    /\ R1.catcher.kind = "return" =>
                          (pc = "returned" /\ res = [Ok |-> R1.catcher.val, Err |-> Nil])
              /\ (Matches(R2.h, d) /\ Matches(R1.h, d)) =>
                    /\ R2.calls = <<d>>
                    /\ R2.catcher.kind = "return" =>
                          /\ R1.calls = <<>>
                          /\ pc = "returned"
                          /\ res = [Ok |-> R2.catcher.val, Err |-> Nil]

C6_Witness ==
    /\ pc = "returned"
    /\ registered = <<Handler("CatchError", Slice(<<<<"E1">>>>), 0),
                      Handler("Fallback", Slice(<<<<"E2">>>>), FallbackVal)>>
    /\ ret.op = "Eh"
    /\ ret.arg.Err = <<"E1">>
    /\ FiredOf(2).calls = <<>>
    /\ FiredOf(1).catcher = Catcher("return", 1, Nil)
    /\ res = [Ok |-> 1, Err |-> Nil]

(* The chain of TestHandleMultipleError and what its recovery functions do. *)
TestChain ==
    <<Handler("Fallback", Slice(<<<<"E3">>>>), FallbackVal),
      Handler("CatchError", Slice(<<<<"E2">>>>), 0),
      Handler("CatchError", Slice(<<<<"E1">>>>), 0)>>

TestCatchers ==
    <<Catcher("return", FallbackVal, Nil),
      Catcher("Eh", 0, <<"E3">>),
      Catcher("Eh", 0, <<"E2">>)>>

(* C7: when a handler's recovery function invokes Eh on an Err Result      *)
(* carrying F2, the handler writes no Ok Result (the slot keeps the        *)
(* failure it was called with) and the interruption carrying F2 unwinds on *)
(* to the deferred call registered before it, which sees F2: a handler     *)
(* calls its recovery function with F2 exactly when its targets match F2,  *)
(* an EscapeHatch stores Err F2.  So Fallback(100, E3), CatchError(E2,     *)
(* raises E3), CatchError(E1, raises E2) with the call failing with E1     *)
(* returns Ok(100).                                                        *)
C7_RecoveryRaisesNewFailure ==
    /\ \A k \in 1 .. Len(fired) :
          fired[k].catcher.kind = "Eh" =>
             LET F2 == fired[k].catcher.err
             IN  /\ k = Len(fired) =>
                       /\ pan = [type |-> "ehError", err |-> F2]
                       /\ res.Err = fired[k].calls[1]
                 /\ k < Len(fired) =>
                       LET nxt == fired[k + 1]
                       IN  /\ nxt.id < fired[k].id
                           /\ IsHandler(nxt.h) =>
                                 nxt.calls = IF Matches(nxt.h, F2) THEN <<F2>> ELSE <<>>
                           /\ (nxt.h.kind = "EscapeHatch" /\ k + 1 = Len(fired)) =>
                                 (res = [Ok |-> 0, Err |-> F2] /\ pan = NilPanic)
    /\ (/\ Finished
        /\ registered = TestChain
        /\ ret.op = "Eh"
        /\ ret.arg.Err = <<"E1">>
        /\ \A k \in 1 .. Len(fired) :
              fired[k].catcher \in {NoCatcher, TestCatchers[fired[k].id]}) =>
          (pc = "returned" /\ res = [Ok |-> FallbackVal, Err |-> Nil])

C7_Witness ==
    /\ pc = "returned"
    /\ registered = TestChain
    /\ ret.op = "Eh"
    /\ ret.arg.Err = <<"E1">>
    /\ fired[1].catcher = Catcher("Eh", 0, <<"E2">>)
    /\ fired[2].catcher = Catcher("Eh", 0, <<"E3">>)
    /\ fired[3].calls = <<<<"E3">>>>
    /\ res = [Ok |-> FallbackVal, Err |-> Nil]

----------------------------------------------------------------------------
(* Properties of one firing.  The failure a handler has before it when it  *)
(* fires is the descriptor of the Eh interruption unwinding into it, or,   *)
(* with none, the descriptor in the Result it is bound to.                 *)

Descriptor == IF last.pan.type = "ehError" THEN last.pan.err ELSE last.res.Err

HasFired == fired # <<>>

(* C8: a CatchError with a non-empty target list that fires on a failure   *)
(* calls its recovery function, with the descriptor, if and only if the    *)
(* descriptor equals or wraps one of the targets; when the function        *)
(* returns v the bound Result becomes Ok v with no descriptor.             *)
C8_CatchErrorMatchesTargets ==
    (/\ HasFired
     /\ LastFired.h.kind = "CatchError"
     /\ Len(LastFired.h.when.list) >= 1
     /\ Descriptor # Nil) =>
        LET list == LastFired.h.when.list
            hit == \E i \in 1 .. Len(list) : EqualsOrWraps(Descriptor, list[i])
        IN  /\ LastFired.calls = IF hit THEN <<Descriptor>> ELSE <<>>
            /\ LastFired.catcher.kind = "return" =>
                  res = [Ok |-> LastFired.catcher.val, Err |-> Nil]

C8_Witness ==
    /\ HasFired
    /\ LastFired.h = Handler("CatchError", Slice(<<<<"E2">>, <<"E1">>>>), 0)
    /\ last.res = [Ok |-> 1, Err |-> <<"W", "E1">>]
    /\ last.pan = NilPanic
    /\ LastFired.calls = <<<<"W", "E1">>>>
    /\ LastFired.catcher = Catcher("return", 1, Nil)
    /\ res = [Ok |-> 1, Err |-> Nil]

(* C9: a CatchError or Fallback none of whose targets matches the failure  *)
(* does not call its recovery function, and the bound Result is still Err  *)
(* with that descriptor afterwards (the very same Result when no           *)
(* interruption came in).                                                  *)
C9_NoMatchLeavesErr ==
    (/\ HasFired
     /\ IsHandler(LastFired.h)
     /\ Len(LastFired.h.when.list) >= 1
     /\ Descriptor # Nil
     /\ \A i \in 1 .. Len(LastFired.h.when.list) :
           ~EqualsOrWraps(Descriptor, LastFired.h.when.list[i])) =>
        /\ LastFired.calls = <<>>
        /\ res.Err = Descriptor
        /\ last.pan.type # "ehError" => res = last.res

C9_Witness ==
    /\ HasFired
    /\ LastFired.h = Handler("Fallback", Slice(<<<<"E2">>, <<"E3">>>>), FallbackVal)
    /\ last.res = [Ok |-> 1, Err |-> <<"W", "E1">>]
    /\ last.pan = NilPanic
    /\ res = last.res
    /\ pc = "returned"

(* C10 (as claimed): a CatchError or Fallback whose target list has no     *)
(* entries calls its recovery function on every failure and the bound      *)
(* Result becomes Ok with the recovery value.                              *)
C10_NoTargetsIsCatchAll ==
    (/\ HasFired
     /\ IsHandler(LastFired.h)
     /\ Len(LastFired.h.when.list) = 0
     /\ Descriptor # Nil) =>
        /\ LastFired.calls = <<Descriptor>>
        /\ LastFired.catcher.kind = "return" =>
              res = [Ok |-> LastFired.catcher.val, Err |-> Nil]

(* C11 (as claimed): a CatchError or Fallback that fires while the bound   *)
(* Result is Ok does not call its recovery function and leaves the Result  *)
(* unchanged, whatever the target list.                                    *)
C11_OkIsNoOp ==
    (HasFired /\ IsHandler(LastFired.h) /\ last.res.Err = Nil) =>
        /\ LastFired.calls = <<>>
        /\ res = last.res

(* C11 (amended): a CatchError or Fallback that fires while the bound       *)
(* Result is Ok and no Eh interruption is unwinding does not call its      *)
(* recovery function and leaves the Result, payload included, and whatever *)
(* else is unwinding unchanged, whatever the target list.                  *)
C11_OkWithoutInterruptionIsNoOp ==
    (/\ HasFired
     /\ IsHandler(LastFired.h)
     /\ last.res.Err = Nil
     /\ last.pan.type # "ehError") =>
        /\ LastFired.calls = <<>>
        /\ res = last.res
        /\ pan = last.pan

C11_Witness ==
    /\ pc = "returned"
    /\ HasFired
    /\ LastFired.h = Handler("Fallback", NilWhen, FallbackVal)
    /\ last.res = [Ok |-> 1, Err |-> Nil]
    /\ last.pan = NilPanic
    /\ LastFired.calls = <<>>
    /\ res = [Ok |-> 1, Err |-> Nil]

(* C12: in the chain Fallback(100, E3), CatchError(E2), CatchError(E1)     *)
(* with the call failing with E1, the handler for E1 fires first and its   *)
(* recovery function is called with E1; when it returns a value the        *)
(* function returns Ok with that value, and neither the recovery function  *)
(* of the E2 handler nor the Fallback value is used.                       *)
C12_InnermostHandlerRecovers ==
    (registered = TestChain /\ BodyFailed /\ BodyFailure = <<"E1">> /\ HasFired) =>
        /\ fired[1].id = 3
        /\ fired[1].calls = <<<<"E1">>>>
        /\ fired[1].catcher.kind = "return" =>
              /\ \A k \in 2 .. Len(fired) : fired[k].calls = <<>>
              /\ res = [Ok |-> fired[1].catcher.val, Err |-> Nil]
              /\ pan = NilPanic
              /\ Finished => pc = "returned"

C12_Witness ==
    /\ pc = "returned"
    /\ registered = TestChain
    /\ ret.op = "Eh"
    /\ ret.arg.Err = <<"E1">>
    /\ Len(fired) = 3
    /\ fired[1].catcher = Catcher("return", 1, Nil)
    /\ fired[2].calls = <<>>
    /\ fired[3].h.kind = "Fallback"
    /\ fired[3].calls = <<>>
    /\ res = [Ok |-> 1, Err |-> Nil]

(* C13: a deferred Fallback(res, v, targets...) leaves the same Result and *)
(* the same panic in flight (so the same way out of the function) as       *)
(* CatchError(res, f, targets...) with f ignoring its argument and         *)
(* returning v does on the same Result, the same panic in flight or none,  *)
(* and the same target list; f is called on the same descriptors.          *)
C13_FallbackIsConstantCatchError ==
    (HasFired /\ LastFired.h.kind = "Fallback") =>
        LET f == Catcher("return", LastFired.h.fallback, Nil)
            same == Handler("CatchError", LastFired.h.when, Zero)
            m == RunHandler(same, f, Machine(last.res, last.pan))
        IN  /\ res = m.res
            /\ pan = m.pan
            /\ LastFired.calls = m.calls
            /\ Finished => pc = IF m.pan = NilPanic THEN "returned" ELSE "panicked"

C13_Witness ==
    /\ pc = "returned"
    /\ HasFired
    /\ LastFired.h = Handler("Fallback", Slice(<<<<"E1">>>>), FallbackVal)
    /\ last.pan = [type |-> "ehError", err |-> <<"W", "E1">>]
    /\ last.res = [Ok |-> 1, Err |-> Nil]
    /\ res = [Ok |-> FallbackVal, Err |-> Nil]

(* C14: a function with (value, error) outputs, modelled by the fields Ok  *)
(* and Err of res, that defers EscapeHatchErr on its error output: when an *)
(* Eh interruption with descriptor e unwinds, the deferred call stops it,  *)
(* sets the error output to e and the function returns normally; when the  *)
(* function exits with no interruption the outputs keep exactly what the   *)
(* function returned (nil stays nil).                                      *)
C14_EscapeHatchErrWritesBack ==
    /\ (HasFired /\ LastFired.h.kind = "EscapeHatchErr") =>
          /\ last.pan.type = "ehError" =>
                (res.Err = last.pan.err /\ res.Ok = last.res.Ok /\ pan = NilPanic)
          /\ last.pan = NilPanic => (res = last.res /\ pan = NilPanic)
    /\ (OnlyEscapeHatchErr /\ Finished /\ BodyFailed /\ ret.op = "Eh") =>
          (pc = "returned" /\ res.Err = ret.arg.Err)
    /\ (OnlyEscapeHatchErr /\ Finished /\ ret.op = "return") =>
          (pc = "returned" /\ res = ret.arg)

C14_Witness ==
    /\ pc = "returned"
    /\ registered = <<Handler("EscapeHatchErr", NilWhen, Zero)>>
    /\ ret.op = "Eh"
    /\ ret.arg.Err = <<"E1">>
    /\ last.res = [Ok |-> 0, Err |-> Nil]
    /\ last.pan = [type |-> "ehError", err |-> <<"E1">>]
    /\ res = [Ok |-> 0, Err |-> <<"E1">>]

(* C15: goroutines dividing (4,2), (4,0) and (5,0), each with its own      *)
(* Result slot: under every interleaving the slots main reads after the    *)
(* join hold Ok 2, Err and Err, a slot never holds anything but its        *)
(* initial value or the outcome of its own call, and a deferred call of a  *)
(* goroutine sees the panic of that goroutine alone: whatever is in        *)
(* flight in the other goroutines stays in flight there.                   *)
C15_GoroutinesAreIndependent ==
    /\ pc[Main] = "read" =>
          /\ slots[1] = [Ok |-> 2, Err |-> Nil]
          /\ slots[2] = [Ok |-> 0, Err |-> DivideByZero]
          /\ slots[3] = [Ok |-> 0, Err |-> DivideByZero]
    /\ \A g \in Goroutines :
          /\ slots[g] \in {[Ok |-> 0, Err |-> Nil],
                            IF Args[g][2] = 0
                            THEN [Ok |-> 0, Err |-> DivideByZero]
                            ELSE [Ok |-> Args[g][1] \div Args[g][2], Err |-> Nil]}
          /\ \A k \in 1 .. Len(fired[g]) :
                /\ fired[g][k].seen = fired[g][k].all[g]
                /\ fired[g][k].seen \in {NilPanic, ret[g].out.pan}
          /\ (pan[g] # NilPanic) => (pan[g] = ret[g].out.pan /\ pc[g] = "unwinding")

C15_Witness ==
    /\ pc[Main] = "read"
    /\ slots[1] = [Ok |-> 2, Err |-> Nil]
    /\ slots[2].Err = DivideByZero
    /\ Len(fired[1]) = 2
    /\ fired[1][1].h = TheEscapeHatch
    /\ fired[1][1].seen = NilPanic
    /\ fired[1][1].all[2] = [type |-> "ehError", err |-> DivideByZero]
    /\ Len(fired[2]) = 2
    /\ fired[2][1].seen = [type |-> "ehError", err |-> DivideByZero]
    /\ Len(fired[3]) = 1

(* C16: MustUnwrap gives back the payload of an Ok Result and the body     *)
(* goes on; on an Err Result it does not return and panics with the        *)
(* descriptor itself as the panic value (not an ehError).  MustUnwrapErr   *)
(* gives back the descriptor of an Err Result; on an Ok Result it does not *)
(* return and panics with a value that is not an ehError.                  *)
C16_MustUnwrapPanicsFatally ==
    /\ ret.op = "MustUnwrap" =>
          IF ret.arg.Err = Nil
          THEN ret.out = [done |-> TRUE, val |-> ret.arg.Ok, err |-> Nil, pan |-> NilPanic]
               /\ pc = "body" /\ pan = NilPanic
          ELSE /\ ~ret.out.done
               /\ ret.out.pan = [type |-> "error", err |-> ret.arg.Err]
               /\ pc # "body"
               /\ fired = <<>> => pan = ret.out.pan
    /\ ret.op = "MustUnwrapErr" =>
          IF ret.arg.Err # Nil
          THEN ret.out = [done |-> TRUE, val |-> 0, err |-> ret.arg.Err, pan |-> NilPanic]
               /\ pc = "body" /\ pan = NilPanic
          ELSE /\ ~ret.out.done
               /\ ret.out.pan.type \in FatalTypes
               /\ pc # "body"
               /\ fired = <<>> => pan = ret.out.pan

C16_Witness ==
    /\ pc = "panicked"
    /\ ret.op = "MustUnwrap"
    /\ ret.arg = [Ok |-> 0, Err |-> <<"E2">>]
    /\ ~ret.out.done
    /\ registered = <<Handler("EscapeHatch", NilWhen, 0)>>
    /\ pan = [type |-> "error", err |-> <<"E2">>]

(* The queries op made on the Result built last. *)
Answers(op) == {fired[k].out : k \in {j \in 1 .. Len(fired) : fired[j].op = op}}

(* C17: NewResult(v, e) is Err with descriptor e if and only if e is not   *)
(* nil, whatever v is; NewResult(v, nil) is Ok with payload v; Unwrap,     *)
(* method and function, gives back exactly the pair (v, e).                *)
C17_NewResultUnwrapRoundTrip ==
    pc = "built" =>
        /\ (res.Err # Nil) <=> (last.err # Nil)
        /\ res.Err = last.err
        /\ last.err = Nil => res = [Ok |-> last.val, Err |-> Nil]
        /\ \A b \in Answers("IsErr") : b <=> (last.err # Nil)
        /\ \A q \in Answers("Unwrap") \cup Answers("UnwrapFunc") : q = <<last.val, last.err>>

C17_Witness ==
    /\ pc = "built"
    /\ last = [val |-> 1, err |-> <<"W", "E2">>]
    /\ Len(fired) = 2
    /\ fired[1] = [op |-> "Unwrap", out |-> <<1, <<"W", "E2">>>>]
    /\ fired[2] = [op |-> "UnwrapFunc", out |-> <<1, <<"W", "E2">>>>]

(* C19: of IsOk and IsErr exactly one is true of any Result; IsErr is true *)
(* exactly when the Err field is not nil, whatever the payload (a zero     *)
(* payload without descriptor is Ok); and the Result is the same after the *)
(* queries as before.                                                      *)
C19_ExactlyOneOfIsOkIsErr ==
    pc = "built" =>
        /\ \A a \in Answers("IsOk"), b \in Answers("IsErr") : a # b
        /\ \A a \in Answers("IsOk") : a <=> (last.err = Nil)
        /\ \A b \in Answers("IsErr") : b <=> (last.err # Nil)
        /\ (last = [val |-> 0, err |-> Nil]) => (FALSE \notin Answers("IsOk"))
        /\ fired # <<>> => res = [Ok |-> last.val, Err |-> last.err]

C19_Witness ==
    /\ pc = "built"
    /\ last = [val |-> 1, err |-> <<"E1">>]
    /\ fired = <<[op |-> "IsErr", out |-> TRUE], [op |-> "IsOk", out |-> FALSE]>>
    /\ res = [Ok |-> 1, Err |-> <<"E1">>]

(* C18: a deferred EscapeHatch that runs with no panic in flight leaves    *)
(* the Result the function returned as it is, Ok or Err, and the function  *)
(* returns it: doDivide(4, 2) returns Ok 2, and doDivide(1, 0), which      *)
(* returns its Err Result without Eh, returns Err "divide by zero" with    *)
(* payload 0.                                                              *)
C18_EscapeHatchNoPanicNoOp ==
    /\ (HasFired /\ LastFired.h.kind = "EscapeHatch" /\ last.pan = NilPanic) =>
          (res = last.res /\ pan = NilPanic /\ res = ret.arg)
    /\ (Finished /\ ret.op = "doDivide") =>
          /\ pc = "returned"
          /\ (ret.x = 4 /\ ret.y = 2) => res = [Ok |-> 2, Err |-> Nil]
          /\ (ret.x = 1 /\ ret.y = 0) => res = [Ok |-> 0, Err |-> <<"divide by zero">>]
          /\ ret.y = 0 => res = [Ok |-> 0, Err |-> <<"divide by zero">>]
          /\ ret.y # 0 => (res.Err = Nil /\ res.Ok * ret.y <= ret.x /\ ret.x < (res.Ok + 1) * ret.y)

C18_Witness ==
    /\ pc = "returned"
    /\ ret.op = "doDivide"
    /\ ret.x = 1
    /\ ret.y = 0
    /\ fired # <<>>
    /\ last.res = [Ok |-> 0, Err |-> <<"divide by zero">>]
    /\ last.pan = NilPanic
    /\ res = [Ok |-> 0, Err |-> <<"divide by zero">>]

(* The targets of the deferred call that ran last, none of which the       *)
(* descriptor of the incoming Eh interruption equals or wraps.             *)
UnmatchedInterruption ==
    /\ HasFired
    /\ IsHandler(LastFired.h)
    /\ Len(LastFired.h.when.list) >= 1
    /\ last.pan.type = "ehError"
    /\ \A i \in 1 .. Len(LastFired.h.when.list) :
          ~EqualsOrWraps(last.pan.err, LastFired.h.when.list[i])

(* C20 (as claimed): a CatchError or Fallback with targets, none of which  *)
(* matches the descriptor of the Eh interruption unwinding into it, does   *)
(* not absorb the interruption: it is still in flight afterwards, and with *)
(* no deferred call registered earlier it leaves the function.             *)
C20_UnmatchedKeepsUnwinding ==
    UnmatchedInterruption =>
        /\ pan = last.pan
        /\ Finished => pc = "panicked"

(* C20 (amended): such a handler stops the interruption and stores its     *)
(* descriptor in the bound Result, Err with the zero payload, without      *)
(* calling its recovery function; the failure goes on to the deferred call *)
(* registered before it as that Err Result, and with none registered       *)
(* before it the function returns normally with that Err Result.           *)
C20_UnmatchedBecomesErrResult ==
    UnmatchedInterruption =>
        /\ LastFired.calls = <<>>
        /\ pan = NilPanic
        /\ res = [Ok |-> 0, Err |-> last.pan.err]
        /\ Finished => pc = "returned"

C20_Witness ==
    /\ pc = "returned"
    /\ HasFired
    /\ LastFired.h = Handler("CatchError", Slice(<<<<"E2">>, <<"E3">>>>), 0)
    /\ last.pan = [type |-> "ehError", err |-> <<"W", "E1">>]
    /\ last.res = [Ok |-> 1, Err |-> Nil]
    /\ pan = NilPanic
    /\ res = [Ok |-> 0, Err |-> <<"W", "E1">>]

(* A handler has fired on an Err Result that the function returned        *)
(* normally, with nothing unwinding.                                       *)
FiredOnReturnedErr ==
    /\ HasFired
    /\ IsHandler(LastFired.h)
    /\ last.pan = NilPanic
    /\ last.res.Err # Nil

(* The recovery functions the handler that ran last may have been given:   *)
(* the one it called, or any when it called none.                          *)
CatchersOfLastFired ==
    IF LastFired.calls # <<>> THEN {LastFired.catcher} ELSE CatchersFor(LastFired.h)

(* The same handler fired instead by an Eh interruption carrying the same  *)
(* descriptor, with r0 in the bound Result.                                *)
OnInterruption(r0, c) ==
    RunHandler(LastFired.h, c, Machine(r0, ehError(last.res.Err)))

(* C21 (as claimed): an Err Result with descriptor e returned normally is  *)
(* handled exactly like an Eh interruption carrying e: the same calls of   *)
(* the recovery function, the same final Result, the same way out.         *)
C21_ReturnedErrLikeInterruption ==
    FiredOnReturnedErr =>
        \A r0 \in Results, c \in CatchersOfLastFired :
            LET m == OnInterruption(r0, c)
            IN  /\ m.calls = LastFired.calls
                /\ m.pan = pan
                /\ m.res = res

(* C21 (amended): the same calls of the recovery function and the same way *)
(* out follow, and the same final Result up to the payload of a Result     *)
(* left Err: both are Err with e, or both Ok with the same payload; a      *)
(* Result left Err keeps the payload it was returned with, while the       *)
(* interruption leaves the zero payload.                                   *)
C21_ReturnedErrLikeInterruptionUpToPayload ==
    FiredOnReturnedErr =>
        \A r0 \in Results, c \in CatchersOfLastFired :
            LET m == OnInterruption(r0, c)
            IN  /\ m.calls = LastFired.calls
                /\ m.pan = pan
                /\ m.res.Err = res.Err
                /\ res.Err = Nil => m.res = res
                /\ res.Err # Nil => (m.res.Ok = 0 /\ res = last.res)

C21_Witness ==
    /\ pc = "returned"
    /\ HasFired
    /\ LastFired.h = Handler("CatchError", Slice(<<<<"E1">>>>), 0)
    /\ last.pan = NilPanic
    /\ last.res = [Ok |-> 1, Err |-> <<"W", "E1">>]
    /\ LastFired.calls = <<<<"W", "E1">>>>
    /\ LastFired.catcher = Catcher("return", 1, Nil)
    /\ res = [Ok |-> 1, Err |-> Nil]

(* C22: one firing of a CatchError or Fallback calls the recovery function *)
(* at most once, also when the descriptor matches several targets or a     *)
(* target is listed more than once.                                        *)
C22_RecoveryCalledAtMostOnce ==
    (HasFired /\ IsHandler(LastFired.h)) =>
        /\ Len(LastFired.calls) <= 1
        /\ (/\ Descriptor # Nil
            /\ Len(LastFired.h.when.list) >= 1
            /\ \A i \in 1 .. Len(LastFired.h.when.list) :
                  EqualsOrWraps(Descriptor, LastFired.h.when.list[i])) =>
              LastFired.calls = <<Descriptor>>

C22_Witness ==
    /\ pc = "returned"
    /\ HasFired
    /\ LastFired.h = Handler("Fallback", Slice(<<<<"E1">>, <<"E1">>>>), FallbackVal)
    /\ last.pan = [type |-> "ehError", err |-> <<"W", "E1">>]
    /\ last.res = [Ok |-> 0, Err |-> Nil]
    /\ LastFired.calls = <<<<"W", "E1">>>>
    /\ res = [Ok |-> FallbackVal, Err |-> Nil]

(* The deferred calls that have called their recovery function. *)
Recovered == {k \in 1 .. Len(fired) : fired[k].calls # <<>>}

(* C23: during one exit every deferred call runs exactly once, and the     *)
(* unwinding only moves outward: what a recovery function raises is only   *)
(* ever seen by deferred calls registered before its handler.  So a chain  *)
(* of n handlers calls at most n recovery functions, and the exit always   *)
(* ends, by a return or by a panic into the caller.                        *)
C23_UnwindingMovesOutward ==
    /\ [](/\ \A j, k \in 1 .. Len(fired) : j < k => fired[k].id < fired[j].id
          /\ \A k \in 1 .. Len(fired) :
                /\ fired[k].h = registered[fired[k].id]
                /\ Len(fired[k].calls) <= 1
          /\ Len(fired) + Len(defers) = Len(registered)
          /\ Finished => Len(fired) = Len(registered)
          /\ Cardinality(Recovered)
                <= Cardinality({i \in 1 .. Len(registered) : IsHandler(registered[i])}))
    /\ (pc = "exiting") ~> Finished

C23_Witness ==
    /\ pc = "panicked"
    /\ Len(registered) = 3
    /\ \A i \in 1 .. 3 : registered[i].kind = "CatchError"
    /\ Len(fired) = 3
    /\ fired[1].catcher.kind = "Eh"
    /\ fired[2].catcher.kind = "Eh"
    /\ fired[3].catcher.kind = "MustUnwrap"
    /\ pan.type = "error"

(* C24 (as claimed): a CatchError, Fallback or EscapeHatchErr that runs    *)
(* while a fatal panic (not an ehError) is unwinding calls no recovery      *)
(* function and leaves the bound Result, or the bound error variable,       *)
(* exactly as it found it, whatever its state.                              *)
C24_FatalLeavesResultAlone ==
    (/\ HasFired
     /\ LastFired.h.kind \in {"CatchError", "Fallback", "EscapeHatchErr"}
     /\ last.pan.type \in FatalTypes) =>
        /\ LastFired.calls = <<>>
        /\ res = last.res

(* C25 (as claimed): Error() called on the legacy wrapper Error{err}       *)
(* terminates and returns a string, for every wrapped error: the call      *)
(* never ends in a stack overflow.                                         *)
C25_LegacyErrorTerminates ==
    ~(pc = "stack overflow" /\ stack[1].fn = "Error.Error")

====
